---- MODULE Spec2Model ----
(***************************************************************************)
(* State-machine model of the two AutoTrader strategies                    *)
(*   src/dynamic_spread.py      (volatility-adaptive quoting)              *)
(*   src/rolling_regression.py  (regression / hedge-ratio quoting)         *)
(*                                                                         *)
(* Time is an integer number of ticks, TicksPerUnit ticks to one time unit *)
(* (one second); time.time(), time.monotonic() and the event loop's clock  *)
(* are read from the one variable `now`.  Prices are integer cents; the    *)
(* float intermediate values of the quoting formulas are carried in fixed  *)
(* point, SCALE units to one cent.                                         *)
(***************************************************************************)
EXTENDS Integers, Sequences, FiniteSets, TLC

\* ------------------------------------------------------------- bounds
TicksPerUnit == 2          \* clock resolution: ticks per time unit
MaxOrderId == 6            \* Spec: order ids allocated in one run
MaxNow == 69               \* SpecHedge: horizon, in time units
MaxHedgeOrderId == 1       \* SpecHedge: order ids allocated by quoting
MaxHedgePosition == 30     \* SpecHedge: fills are enumerated while |position| stays within it
MaxThrottleOrderId == 70   \* SpecThrottle: order ids allocated in one run
MaxThrottleTicks == 2      \* SpecThrottle: horizon, in ticks
\* SpecExchange: the ids 1..MaxExchangeOrderId are allocated (two a cycle)
MaxExchangeOrderId == 22

\* ------------------------------------------------- program constants
LOT_SIZE == 10
POSITION_LIMIT == 100
TICK_SIZE_IN_CENTS == 100
MINIMUM_BID == 1
MAXIMUM_ASK == 2147483647
MIN_BID_NEAREST_TICK == ((MINIMUM_BID + TICK_SIZE_IN_CENTS) \div TICK_SIZE_IN_CENTS) * TICK_SIZE_IN_CENTS
MAX_ASK_NEAREST_TICK == (MAXIMUM_ASK \div TICK_SIZE_IN_CENTS) * TICK_SIZE_IN_CENTS
HEDGE_BOUNDARY == 10
HEDGE_TIME_LIMIT == 58 * TicksPerUnit
AVG_WINDOW == 50
RR_AVG_WINDOW == 10
HEDGE_RATIO_LOOKBACK == 10
ORDER_THRESHOLD == 50
REBALANCING_THRESHOLD == 80
max_calls == 47
interval == 1 * TicksPerUnit
\* a capacity test that lets a fifth id in
MaxQueuedLoose == 4 + 1
MaxQueued == 4
CHECK_FIRST_DELAY == 50 * TicksPerUnit
\* a check rescheduled every 2 time units
CHECK_PERIOD_SLOW == 2 * TicksPerUnit
CHECK_PERIOD == 1 * TicksPerUnit
CANCEL_DELAY == 10 * TicksPerUnit

\* Side (ready_trader_go): BID is an alias of BUY, ASK an alias of SELL.
SELL == "SELL"
BUY == "BUY"
ASK == SELL
BID == BUY
\* Instrument (ready_trader_go)
FUTURE == "FUTURE"
ETF == "ETF"
\* Python's None for hedge_time (timestamps are >= 0)
None == -1

VARIABLES
  now,                \* the clock, in ticks
  next_check,         \* when the scheduled check_hedge callback is due
  timers,             \* pending cancel_order callbacks: {<<due, client_order_id>>}
  order_ids,          \* next value of itertools.count(1)
  bids, asks,         \* sets of client order ids
  bidq, askq,         \* deques of client order ids
  position,
  hedge_balance,
  hedge_time,
  recent_prices,      \* dynamic_spread: deque(maxlen=AVG_WINDOW) of mid prices
  etf_prices,         \* rolling_regression: deque(maxlen=10) of ETF mid prices
  fut_prices,         \* rolling_regression: deque(maxlen=10) of future mid prices
  call_times,         \* the deque closed over by send_throttled's throttler
  cancel_call_times,  \* the deque closed over by cancel_order's throttler
  out,                \* gateway calls made by the last callback, in order
  ev,                 \* the name of the last callback
  accepted,           \* history: times of the calls send_throttled's throttler let through
  hedged,             \* history: hedge volume sent for negative imbalance minus that for positive
  exchange            \* the exchange's side: orders open, cancels requested, completions to report

vars == <<now, next_check, timers, order_ids, bids, asks, bidq, askq, position,
          hedge_balance, hedge_time, recent_prices, etf_prices, fut_prices, call_times,
          cancel_call_times, out, ev, accepted, hedged, exchange>>

\* ------------------------------------------------------------ helpers
Abs(x) == IF x < 0 THEN -x ELSE x
Max(a, b) == IF a > b THEN a ELSE b
Min(a, b) == IF a < b THEN a ELSE b
Elems(q) == {q[i] : i \in 1..Len(q)}
RECURSIVE SeqSum(_)
SeqSum(q) == IF q = <<>> THEN 0 ELSE Head(q) + SeqSum(Tail(q))
\* floor(a * b / c) for a, b >= 0, c > 0 without forming a * b
MulDiv(a, b, c) == (a \div c) * b + ((a % c) * b) \div c
RECURSIVE ISqrtIn(_, _, _)
ISqrtIn(v, lo, hi) ==
  IF lo >= hi THEN lo
  ELSE LET m == (lo + hi + 1) \div 2
       IN IF m * m <= v THEN ISqrtIn(v, m, hi) ELSE ISqrtIn(v, lo, m - 1)
\* floor(sqrt(v)), 0 <= v < 2^30
ISqrt(v) == ISqrtIn(v, 0, 32767)

\* collections.deque(maxlen=n).append
DequeAppend(q, x, n) == IF Len(q) = n THEN Tail(q) \o <<x>> ELSE Append(q, x)
\* deque.remove inside try/except ValueError: first occurrence, if any
RECURSIVE DequeRemove(_, _)
DequeRemove(q, x) ==
  IF q = <<>> THEN <<>>
  ELSE IF Head(q) = x THEN Tail(q) ELSE <<Head(q)>> \o DequeRemove(Tail(q), x)

\* gateway calls
InsertOrder(id, side, price, volume) ==
  [op |-> "insert", id |-> id, side |-> side, price |-> price, volume |-> volume]
CancelOrder(id) ==
  [op |-> "cancel", id |-> id, side |-> "", price |-> 0, volume |-> 0]
HedgeOrder(id, side, price, volume) ==
  [op |-> "hedge", id |-> id, side |-> side, price |-> price, volume |-> volume]

\* ------------------------------------------------------ fixed point
SCALE == 10000        \* price units per cent in the float expressions
STD_SCALE == 100      \* np.std is carried in 1/STD_SCALE cents
PF_SCALE == 10000     \* position_factor is carried in 1/PF_SCALE
\* base_spread_percentage = 0.001 + (TAKER_FEE - MAKER_FEE) = 0.0011, in 1/SCALE
base_spread_percentage == 11
\* rolling_regression.py:23-24, in 1/SCALE
CONSERVATIVE_SPREAD == 20
NORMAL_SPREAD == 10

\* ---------------------------------------------------------- throttler
\* wrapper's test: the call is dropped (dynamic_spread.py:33)
\* a throttler whose window is one tick shorter than interval
throttler_drops_short(ct, t) == Len(ct) = max_calls /\ t - ct[1] < interval - 1
throttler_drops(ct, t) == Len(ct) = max_calls /\ t - ct[1] < interval

\* ------------------------------------------------------ price helpers
\* adjust_price on a fixed-point price p: int(price // TICK) * TICK
\* a rounding to whole cents only
adjust_price_cents(p) == p \div SCALE
adjust_price(p) == (p \div (TICK_SIZE_IN_CENTS * SCALE)) * TICK_SIZE_IN_CENTS

\* np.std (population standard deviation) of a non-empty window, in
\* 1/STD_SCALE cents, rounded down: sqrt(n*sum(d^2) - sum(d)^2) / n with
\* d the offsets from the first sample
Std(w) ==
  LET n == Len(w)
      d == [i \in 1..n |-> w[i] - w[1]]
      sq == [i \in 1..n |-> d[i] * d[i]]
  IN (ISqrt(n * SeqSum(sq) - SeqSum(d) * SeqSum(d)) * STD_SCALE) \div n

\* 1 + (MAX_POSITION_FACTOR - 1) * (abs(position) / POSITION_LIMIT) ** SENSITIVITY_FACTOR
\* = 1 + (abs(position) / 100) ** 0.02, in 1/PF_SCALE rounded down, tabulated
\* for abs(position) = 0 .. 130
PositionFactorTable ==
  <<
     10000, 19120, 19247, 19322, 19376, 19418, 19452, 19482, 19507, 19529,
     19549, 19568, 19584, 19600, 19614, 19627, 19640, 19651, 19662, 19673,
     19683, 19692, 19701, 19710, 19718, 19726, 19734, 19741, 19748, 19755,
     19762, 19768, 19774, 19780, 19786, 19792, 19797, 19803, 19808, 19813,
     19818, 19823, 19827, 19832, 19837, 19841, 19845, 19850, 19854, 19858,
     19862, 19866, 19870, 19873, 19877, 19881, 19884, 19888, 19891, 19895,
     19898, 19901, 19904, 19908, 19911, 19914, 19917, 19920, 19923, 19926,
     19928, 19931, 19934, 19937, 19939, 19942, 19945, 19947, 19950, 19952,
     19955, 19957, 19960, 19962, 19965, 19967, 19969, 19972, 19974, 19976,
     19978, 19981, 19983, 19985, 19987, 19989, 19991, 19993, 19995, 19997,
     20000, 20001, 20003, 20005, 20007, 20009, 20011, 20013, 20015, 20017,
     20019, 20020, 20022, 20024, 20026, 20027, 20029, 20031, 20033, 20034,
     20036, 20038, 20039, 20041, 20043, 20044, 20046, 20047, 20049, 20051,
     20052
  >>
calculate_position_factor(pos) == PositionFactorTable[Abs(pos) + 1]

\* dynamic_spread.py:81-99: the bid and ask price of one quoting cycle.
\* mid_price * spread_percentage = base * mid + 0.5 * std  (in 1/SCALE cents)
QuoteVol(mid_price, window, pos) ==
  LET price_volatility == Std(window)
      spread == base_spread_percentage * mid_price
                  + (SCALE \div (2 * STD_SCALE)) * price_volatility
      position_factor == calculate_position_factor(pos)
      skewed == MulDiv(spread, position_factor, PF_SCALE)
      bid1 == IF pos > ORDER_THRESHOLD
                THEN adjust_price(mid_price * SCALE - skewed)
                ELSE adjust_price(mid_price * SCALE - spread)
      ask1 == IF pos > ORDER_THRESHOLD
                THEN adjust_price(mid_price * SCALE + spread)
                ELSE IF pos < -ORDER_THRESHOLD
                       THEN adjust_price(mid_price * SCALE + skewed)
                       ELSE adjust_price(mid_price * SCALE + spread)
      ask2 == IF pos >= REBALANCING_THRESHOLD
                THEN adjust_price(ask1 * SCALE - ((ask1 - bid1) * SCALE) \div 2)
                ELSE ask1
      bid2 == IF pos < REBALANCING_THRESHOLD /\ pos <= -REBALANCING_THRESHOLD
                THEN adjust_price(bid1 * SCALE + ((ask1 - bid1) * SCALE) \div 2)
                ELSE bid1
  IN [bid |-> bid2, ask |-> ask2]

\* ------------------------------------------------- order bookkeeping
\* deque.popleft: the id removed and what is left
\* deque.pop: removes the id queued last
pop(q) == [id |-> q[Len(q)], rest |-> SubSeq(q, 1, Len(q) - 1)]
popleft(q) == [id |-> Head(q), rest |-> Tail(q)]

\* The fields a quoting cycle reads and writes, threaded through its steps.
Cycle0 ==
  [bidq |-> bidq, askq |-> askq, bids |-> bids, asks |-> asks,
   call_times |-> call_times, timers |-> timers, order_ids |-> order_ids,
   out |-> <<>>, acc |-> <<>>]

\* send_throttled's body (dynamic_spread.py:54-66, rolling_regression.py:54-65);
\* auto_cancel: the volatility variant's call_later(10, cancel_order)
send_throttled_body(s, client_order_id, side, price, volume, auto_cancel) ==
  LET sent == [s EXCEPT
                 !.out = Append(@, InsertOrder(client_order_id, side, price, volume)),
                 !.timers = IF auto_cancel
                              THEN @ \cup {<<now + CANCEL_DELAY, client_order_id>>}
                              ELSE @]
  IN IF side = BUY
       THEN IF Len(s.bidq) >= MaxQueued THEN s
            ELSE [sent EXCEPT !.bidq = Append(@, client_order_id),
                              !.bids = @ \cup {client_order_id}]
       ELSE IF Len(s.askq) >= MaxQueued THEN s
            ELSE [sent EXCEPT !.askq = Append(@, client_order_id),
                              !.asks = @ \cup {client_order_id}]

\* a throttler that records the time of a call it drops
send_throttled_recorded(s, client_order_id, side, price, volume, auto_cancel) ==
  IF throttler_drops(s.call_times, now)
    THEN [s EXCEPT !.call_times = DequeAppend(@, now, max_calls)]
    ELSE send_throttled_body(
           [s EXCEPT !.call_times = DequeAppend(@, now, max_calls),
                     !.acc = Append(@, now)],
           client_order_id, side, price, volume, auto_cancel)

\* send_throttled as decorated by throttler
send_throttled(s, client_order_id, side, price, volume, auto_cancel) ==
  IF throttler_drops(s.call_times, now) THEN s
  ELSE send_throttled_body(
         [s EXCEPT !.call_times = DequeAppend(@, now, max_calls),
                   !.acc = Append(@, now)],
         client_order_id, side, price, volume, auto_cancel)

\* a quoting cycle that evicts first and computes the exposure afterwards
QuotingCycleEvictFirst(s0, new_bid_price, new_ask_price, auto_cancel) ==
  LET s1 == IF Len(s0.bidq) >= MaxQueued
              THEN [s0 EXCEPT !.bidq = popleft(@).rest,
                              !.out = Append(@, CancelOrder(popleft(s0.bidq).id))]
              ELSE s0
      s2 == IF Len(s1.askq) >= MaxQueued
              THEN [s1 EXCEPT !.askq = popleft(@).rest,
                              !.out = Append(@, CancelOrder(popleft(s1.askq).id))]
              ELSE s1
      exposure_long == Len(s2.bidq) * LOT_SIZE
      exposure_short == Len(s2.askq) * LOT_SIZE
      remaining_long == Max(0, POSITION_LIMIT - position - exposure_long)
      remaining_short == Max(0, POSITION_LIMIT + position - exposure_short)
      s3 == IF new_bid_price # 0 /\ remaining_long > 0
              THEN send_throttled([s2 EXCEPT !.order_ids = @ + 1], s2.order_ids, BUY,
                                  new_bid_price, Min(LOT_SIZE, remaining_long), auto_cancel)
              ELSE s2
      s4 == IF new_ask_price # 0 /\ remaining_short > 0
              THEN send_throttled([s3 EXCEPT !.order_ids = @ + 1], s3.order_ids, SELL,
                                  new_ask_price, Min(LOT_SIZE, remaining_short), auto_cancel)
              ELSE s3
  IN s4

\* dynamic_spread.py:101-121, rolling_regression.py:105-125
QuotingCycle(s0, new_bid_price, new_ask_price, auto_cancel) ==
  LET exposure_long == Len(s0.bidq) * LOT_SIZE
      exposure_short == Len(s0.askq) * LOT_SIZE
      remaining_long == Max(0, POSITION_LIMIT - position - exposure_long)
      remaining_short == Max(0, POSITION_LIMIT + position - exposure_short)
      s1 == IF Len(s0.bidq) >= MaxQueued
              THEN [s0 EXCEPT !.bidq = popleft(@).rest,
                              !.out = Append(@, CancelOrder(popleft(s0.bidq).id))]
              ELSE s0
      s2 == IF Len(s1.askq) >= MaxQueued
              THEN [s1 EXCEPT !.askq = popleft(@).rest,
                              !.out = Append(@, CancelOrder(popleft(s1.askq).id))]
              ELSE s1
      s3 == IF new_bid_price # 0 /\ remaining_long > 0
              THEN send_throttled([s2 EXCEPT !.order_ids = @ + 1], s2.order_ids, BUY,
                                  new_bid_price, Min(LOT_SIZE, remaining_long), auto_cancel)
              ELSE s2
      s4 == IF new_ask_price # 0 /\ remaining_short > 0
              THEN send_throttled([s3 EXCEPT !.order_ids = @ + 1], s3.order_ids, SELL,
                                  new_ask_price, Min(LOT_SIZE, remaining_short), auto_cancel)
              ELSE s3
  IN s4

\* ------------------------------------------------------------- Init
\* the exchange before any order: open is a set of <<id, side, volume>>,
\* cancels the ids whose cancel it has not processed yet, done the ids that
\* completed and whose final status message is still to be delivered
NoOrders == [open |-> {}, cancels |-> {}, done |-> {}]

Init ==
  /\ now = 0
  /\ next_check = CHECK_FIRST_DELAY
  /\ timers = {}
  /\ order_ids = 1
  /\ bids = {} /\ asks = {}
  /\ bidq = <<>> /\ askq = <<>>
  /\ position = 0
  /\ hedge_balance = 0
  /\ hedge_time = None
  /\ recent_prices = <<>>
  /\ etf_prices = <<>> /\ fut_prices = <<>>
  /\ call_times = <<>>
  /\ cancel_call_times = <<>>
  /\ out = <<>>
  /\ ev = "init"
  /\ accepted = <<>>
  /\ hedged = 0
  /\ exchange = NoOrders

\* ---------------------------------------------------------- handlers
\* dynamic_spread.py:76-121: what one order-book update leaves behind
BookUpdateVol(instrument, bid_price, ask_price) ==
  IF instrument = FUTURE /\ bid_price > 0 /\ ask_price > 0
    THEN LET mid_price == (bid_price + ask_price) \div 2
             window == DequeAppend(recent_prices, mid_price, AVG_WINDOW)
             q == QuoteVol(mid_price, window, position)
         IN [cycle |-> QuotingCycle(Cycle0, q.bid, q.ask, TRUE), window |-> window]
    ELSE [cycle |-> Cycle0, window |-> recent_prices]

on_order_book_update_message(instrument, bid_price, ask_price) ==
  LET r == BookUpdateVol(instrument, bid_price, ask_price)
  IN /\ recent_prices' = r.window
     /\ bidq' = r.cycle.bidq /\ askq' = r.cycle.askq
     /\ bids' = r.cycle.bids /\ asks' = r.cycle.asks
     /\ call_times' = r.cycle.call_times
     /\ timers' = r.cycle.timers
     /\ order_ids' = r.cycle.order_ids
     /\ out' = r.cycle.out
     /\ ev' = "book"
     /\ UNCHANGED <<now, next_check, position, hedge_balance, hedge_time,
                    etf_prices, fut_prices, cancel_call_times>>

\* rolling_regression.py:67-74: None exactly when a window is short
hedge_ratio_is_none(etf, fut) ==
  Len(etf) < HEDGE_RATIO_LOOKBACK \/ Len(fut) < HEDGE_RATIO_LOOKBACK

\* rolling_regression.py:92-103: the bid and ask price of one quoting cycle.
\* signal is the outcome of comparing spread[-1] with mean(spread) +- std(spread),
\* computed by np.polyfit, np.mean and np.std in floating point: "rich" (above),
\* "cheap" (below) or "neutral"; the model leaves the outcome open.
Signals == {"rich", "cheap", "neutral"}
QuoteReg(mid_price, signal) ==
  LET wide_ask == adjust_price(mid_price * SCALE + CONSERVATIVE_SPREAD * mid_price)
      tight_ask == adjust_price(mid_price * SCALE + NORMAL_SPREAD * mid_price)
      wide_bid == adjust_price(mid_price * SCALE - CONSERVATIVE_SPREAD * mid_price)
      tight_bid == adjust_price(mid_price * SCALE - NORMAL_SPREAD * mid_price)
      ask1 == IF signal = "rich" THEN wide_ask ELSE tight_ask
      bid1 == IF signal = "rich" THEN tight_bid
              ELSE IF signal = "cheap" THEN wide_bid ELSE tight_bid
  IN [bid |-> adjust_price(bid1 * SCALE), ask |-> adjust_price(ask1 * SCALE)]

\* rolling_regression.py:76-125: what one order-book update leaves behind
BookUpdateReg(instrument, bid_price, ask_price, signal) ==
  LET mid_price == (bid_price + ask_price) \div 2
      etf == IF instrument = ETF
               THEN DequeAppend(etf_prices, mid_price, RR_AVG_WINDOW) ELSE etf_prices
      fut == IF instrument = FUTURE
               THEN DequeAppend(fut_prices, mid_price, RR_AVG_WINDOW) ELSE fut_prices
  IN IF bid_price <= 0 /\ ask_price <= 0
       THEN [cycle |-> Cycle0, etf |-> etf_prices, fut |-> fut_prices]
       ELSE IF /\ instrument = FUTURE
               /\ ~hedge_ratio_is_none(etf, fut)
               /\ Len(etf) > 0 /\ Len(fut) > 0
              THEN LET q == QuoteReg(mid_price, signal)
                   IN [cycle |-> QuotingCycle(Cycle0, q.bid, q.ask, FALSE),
                       etf |-> etf, fut |-> fut]
              ELSE [cycle |-> Cycle0, etf |-> etf, fut |-> fut]

on_order_book_update_message_rr(instrument, bid_price, ask_price, signal) ==
  LET r == BookUpdateReg(instrument, bid_price, ask_price, signal)
  IN /\ etf_prices' = r.etf /\ fut_prices' = r.fut
     /\ bidq' = r.cycle.bidq /\ askq' = r.cycle.askq
     /\ bids' = r.cycle.bids /\ asks' = r.cycle.asks
     /\ call_times' = r.cycle.call_times
     /\ timers' = r.cycle.timers
     /\ order_ids' = r.cycle.order_ids
     /\ out' = r.cycle.out
     /\ ev' = "book"
     /\ UNCHANGED <<now, next_check, position, hedge_balance, hedge_time,
                    recent_prices, cancel_call_times>>

\* a correction due as soon as the limit is reached
hedge_due_at_limit(ht, t, balance) ==
  /\ ht # None
  /\ t - ht >= HEDGE_TIME_LIMIT
  /\ (balance > HEDGE_BOUNDARY \/ balance < -HEDGE_BOUNDARY)

\* dynamic_spread.py:124 / rolling_regression.py:128: the correction fires
hedge_due(ht, t, balance) ==
  /\ ht # None
  /\ t - ht > HEDGE_TIME_LIMIT
  /\ (balance > HEDGE_BOUNDARY \/ balance < -HEDGE_BOUNDARY)

\* a correction that resets the balance to zero
hedge_correction_zero(id, balance) ==
  IF balance > 0
    THEN [order |-> HedgeOrder(id, BID, MAX_ASK_NEAREST_TICK, Abs(balance) - HEDGE_BOUNDARY),
          balance |-> 0]
    ELSE [order |-> HedgeOrder(id, ASK, MIN_BID_NEAREST_TICK, Abs(balance) - HEDGE_BOUNDARY),
          balance |-> 0]
\* a correction that hedges the whole balance
hedge_correction_whole(id, balance) ==
  IF balance > 0
    THEN [order |-> HedgeOrder(id, BID, MAX_ASK_NEAREST_TICK, Abs(balance)),
          balance |-> HEDGE_BOUNDARY]
    ELSE [order |-> HedgeOrder(id, ASK, MIN_BID_NEAREST_TICK, Abs(balance)),
          balance |-> -HEDGE_BOUNDARY]

\* a correction that leaves +HEDGE_BOUNDARY whatever the sign
hedge_correction_abs(id, balance) ==
  IF balance > 0
    THEN [order |-> HedgeOrder(id, BID, MAX_ASK_NEAREST_TICK, Abs(balance) - HEDGE_BOUNDARY),
          balance |-> HEDGE_BOUNDARY]
    ELSE [order |-> HedgeOrder(id, ASK, MIN_BID_NEAREST_TICK, Abs(balance) - HEDGE_BOUNDARY),
          balance |-> HEDGE_BOUNDARY]

\* dynamic_spread.py:125-130: the hedge order sent and the balance left
hedge_correction(id, balance) ==
  IF balance > 0
    THEN [order |-> HedgeOrder(id, BID, MAX_ASK_NEAREST_TICK, Abs(balance) - HEDGE_BOUNDARY),
          balance |-> HEDGE_BOUNDARY]
    ELSE [order |-> HedgeOrder(id, ASK, MIN_BID_NEAREST_TICK, Abs(balance) - HEDGE_BOUNDARY),
          balance |-> -HEDGE_BOUNDARY]

\* the signed volume of the hedge order the next check_hedge sends: positive
\* when it corrects a negative imbalance, negative for a positive one, 0 if none
HedgeSent ==
  IF hedge_due(hedge_time, now, hedge_balance)
    THEN LET o == hedge_correction(order_ids, hedge_balance).order
         IN IF hedge_balance < 0 THEN o.volume ELSE -o.volume
    ELSE 0

\* dynamic_spread.py:123-132, run by the event loop when its call_later is due
check_hedge ==
  /\ now = next_check
  /\ IF hedge_due(hedge_time, now, hedge_balance)
       THEN LET c == hedge_correction(order_ids, hedge_balance)
            IN /\ out' = <<c.order>>
               /\ order_ids' = order_ids + 1
               /\ hedge_balance' = c.balance
               /\ hedge_time' = None
       ELSE /\ out' = <<>>
            /\ UNCHANGED <<order_ids, hedge_balance, hedge_time>>
  /\ next_check' = now + CHECK_PERIOD
  /\ ev' = "check_hedge"
  /\ UNCHANGED <<now, timers, bids, asks, bidq, askq, position, recent_prices, etf_prices, fut_prices,
                 call_times, cancel_call_times>>

\* sideOf: dynamic_spread.py:136,139
is_buy(id) == id \in bids \/ id \in Elems(bidq)
is_sell(id) == ~is_buy(id) /\ (id \in asks \/ id \in Elems(askq))

\* a fill handler that restarts the timer at every fill outside the boundary
fill_timer_restart(pre, post, ht, t) ==
  IF post >= -HEDGE_BOUNDARY /\ post <= HEDGE_BOUNDARY THEN None ELSE t
\* a fill handler that restarts the timer whenever the imbalance grows
fill_timer_grow(pre, post, ht, t) ==
  IF post >= -HEDGE_BOUNDARY /\ post <= HEDGE_BOUNDARY THEN None
  ELSE IF (pre > 0 /\ post < 0) \/ (pre < 0 /\ post > 0) THEN t
  ELSE IF Abs(post) > Abs(pre) \/ ht = None THEN t
  ELSE ht
\* a fill handler that never clears the timer
fill_timer_keep(pre, post, ht, t) ==
  IF (pre > 0 /\ post < 0) \/ (pre < 0 /\ post > 0) THEN t
  ELSE IF (post > HEDGE_BOUNDARY \/ post < -HEDGE_BOUNDARY) /\ ht = None THEN t
  ELSE ht

\* dynamic_spread.py:142-147: the timer after a fill took the balance from pre to post
fill_timer(pre, post, ht, t) ==
  IF post >= -HEDGE_BOUNDARY /\ post <= HEDGE_BOUNDARY THEN None
  ELSE IF (pre > 0 /\ post < 0) \/ (pre < 0 /\ post > 0) THEN t
  ELSE IF (post > HEDGE_BOUNDARY \/ post < -HEDGE_BOUNDARY) /\ ht = None THEN t
  ELSE ht

\* a fill handler with `else` for `elif`: an id on neither side counts as a sell
fill_effect_else(client_order_id, volume) ==
  IF client_order_id \in bids \/ client_order_id \in Elems(bidq)
    THEN [position |-> position + volume, hedge_balance |-> hedge_balance - volume]
    ELSE [position |-> position - volume, hedge_balance |-> hedge_balance + volume]

\* dynamic_spread.py:135-141: position and balance after a fill
fill_effect(client_order_id, volume) ==
  IF is_buy(client_order_id)
    THEN [position |-> position + volume, hedge_balance |-> hedge_balance - volume]
    ELSE IF is_sell(client_order_id)
      THEN [position |-> position - volume, hedge_balance |-> hedge_balance + volume]
      ELSE [position |-> position, hedge_balance |-> hedge_balance]

\* dynamic_spread.py:134-147
on_order_filled_message(client_order_id, volume) ==
  LET pre == hedge_balance
      f == fill_effect(client_order_id, volume)
  IN /\ position' = f.position
     /\ hedge_balance' = f.hedge_balance
     /\ hedge_time' = fill_timer(pre, f.hedge_balance, hedge_time, now)
     /\ out' = <<>>
     /\ ev' = "fill"
     /\ UNCHANGED <<now, next_check, timers, order_ids, bids, asks, bidq, askq,
                    recent_prices, etf_prices, fut_prices, call_times, cancel_call_times>>

\* dynamic_spread.py:149-163: the sets and queues after a status message
order_status(client_order_id, remaining_volume) ==
  LET same == [bids |-> bids, bidq |-> bidq, asks |-> asks, askq |-> askq]
  IN IF remaining_volume = 0
       THEN IF is_buy(client_order_id)
              THEN [same EXCEPT !.bids = @ \ {client_order_id},
                                !.bidq = DequeRemove(@, client_order_id)]
              ELSE IF is_sell(client_order_id)
                THEN [same EXCEPT !.asks = @ \ {client_order_id},
                                  !.askq = DequeRemove(@, client_order_id)]
                ELSE same
       ELSE same

on_order_status_message(client_order_id, remaining_volume) ==
  LET r == order_status(client_order_id, remaining_volume)
  IN /\ bids' = r.bids /\ bidq' = r.bidq
     /\ asks' = r.asks /\ askq' = r.askq
     /\ out' = <<>>
     /\ ev' = "status"
     /\ UNCHANGED <<now, next_check, timers, order_ids, position, hedge_balance,
                    hedge_time, recent_prices, etf_prices, fut_prices, call_times, cancel_call_times>>

\* dynamic_spread.py:165-169
on_error_message(client_order_id) ==
  LET r == IF client_order_id # 0 /\ (client_order_id \in bids \/ client_order_id \in asks)
             THEN order_status(client_order_id, 0)
             ELSE [bids |-> bids, bidq |-> bidq, asks |-> asks, askq |-> askq]
  IN /\ bids' = r.bids /\ bidq' = r.bidq
     /\ asks' = r.asks /\ askq' = r.askq
     /\ out' = <<>>
     /\ ev' = "error"
     /\ UNCHANGED <<now, next_check, timers, order_ids, position, hedge_balance,
                    hedge_time, recent_prices, etf_prices, fut_prices, call_times, cancel_call_times>>

\* dynamic_spread.py:171-178: on_hedge_filled_message and on_trade_ticks_message only log
on_hedge_filled_message(client_order_id, volume) ==
  /\ out' = <<>>
  /\ ev' = "hedge_filled"
  /\ UNCHANGED <<now, next_check, timers, order_ids, bids, asks, bidq, askq, position,
                 hedge_balance, hedge_time, recent_prices, etf_prices, fut_prices, call_times, cancel_call_times>>

\* dynamic_spread.py:68-70: cancel_order calls itself through its throttler until
\* the throttler drops the call; what is left is its deque
RECURSIVE cancel_order(_, _)
cancel_order(ct, t) ==
  IF throttler_drops(ct, t) THEN ct
  ELSE cancel_order(DequeAppend(ct, t, max_calls), t)

\* dynamic_spread.py:68-70: the number of times the wrapper of cancel_order is
\* entered by one call, the dropped one included
RECURSIVE cancel_order_depth(_, _)
cancel_order_depth(ct, t) ==
  IF throttler_drops(ct, t) THEN 1
  ELSE 1 + cancel_order_depth(DequeAppend(ct, t, max_calls), t)

\* a timer callback that also forgets the order it was set for
cancel_order_timer_untracks(tm) ==
  /\ tm \in timers
  /\ tm[1] <= now
  /\ timers' = timers \ {tm}
  /\ cancel_call_times' = cancel_order(cancel_call_times, now)
  /\ bids' = bids \ {tm[2]}
  /\ asks' = asks \ {tm[2]}
  /\ bidq' = DequeRemove(bidq, tm[2])
  /\ askq' = DequeRemove(askq, tm[2])
  /\ out' = <<>>
  /\ ev' = "cancel_timer"
  /\ UNCHANGED <<now, next_check, order_ids, position,
                 hedge_balance, hedge_time, recent_prices, etf_prices, fut_prices, call_times>>

\* the call_later(10, lambda: self.cancel_order(client_order_id)) callback, when due
cancel_order_timer(tm) ==
  /\ tm \in timers
  /\ tm[1] <= now
  /\ timers' = timers \ {tm}
  /\ cancel_call_times' = cancel_order(cancel_call_times, now)
  /\ out' = <<>>
  /\ ev' = "cancel_timer"
  /\ UNCHANGED <<now, next_check, order_ids, bids, asks, bidq, askq, position,
                 hedge_balance, hedge_time, recent_prices, etf_prices, fut_prices, call_times>>

\* ---------------------------------------------------------------- time
DueTimes == {next_check} \cup {tm[1] : tm \in timers}
NextDue == CHOOSE d \in DueTimes : \A e \in DueTimes : d <= e

\* the event loop sleeps until its next scheduled callback is due
Advance(limit) ==
  /\ NextDue > now
  /\ NextDue <= limit
  /\ now' = NextDue
  /\ out' = <<>>
  /\ ev' = "time"
  /\ UNCHANGED <<next_check, timers, order_ids, bids, asks, bidq, askq, position,
                 hedge_balance, hedge_time, recent_prices, etf_prices, fut_prices, call_times, cancel_call_times>>

\* one clock tick passes with no callback due
Tick(limit) ==
  /\ now < NextDue
  /\ now < limit
  /\ now' = now + 1
  /\ out' = <<>>
  /\ ev' = "time"
  /\ UNCHANGED <<next_check, timers, order_ids, bids, asks, bidq, askq, position,
                 hedge_balance, hedge_time, recent_prices, etf_prices, fut_prices, call_times, cancel_call_times>>

\* ------------------------------------------------------ specifications
\* Order-book updates offered to the trader: <<instrument, best bid, best ask>>
BookUpdates ==
  { <<FUTURE, 1000, 1000>>,
    <<FUTURE, 0, 100>>,       \* non-positive best bid
    <<ETF, 1000, 1000>> }

\* The callbacks the exchange may deliver, in any order, for any order id
\* allocated so far and for 0, an id the trader never allocates.
Callbacks(updates, maxId, volumes, maxPos) ==
  \/ \E u \in updates :
       /\ order_ids <= maxId
       /\ on_order_book_update_message(u[1], u[2], u[3])
  \/ \E id \in 0..(order_ids - 1), v \in volumes :
       /\ on_order_filled_message(id, v)
       /\ Abs(position') <= maxPos
  \/ \E id \in 0..(order_ids - 1), r \in {0, 5} :
       on_order_status_message(id, r)
  \/ \E id \in 0..(order_ids - 1) :
       on_error_message(id)

\* Spec: a burst of callbacks; a fill of POSITION_LIMIT lots takes the position
\* to the limit, where only one side is quoted.
FillVolumes == {5 * LOT_SIZE, POSITION_LIMIT}

Next ==
  Callbacks(BookUpdates, MaxOrderId, FillVolumes, POSITION_LIMIT) /\ UNCHANGED <<accepted, hedged, exchange>>

Spec == Init /\ [][Next]_vars

\* SpecHedge: few orders, and time passing: the event loop runs the callbacks
\* that are due (check_hedge, the cancel timers) and sleeps until the next one.
HedgeVolumes == {15, 30}
NextHedge ==
  \/ Callbacks({<<FUTURE, 1000, 1000>>}, MaxHedgeOrderId, HedgeVolumes, MaxHedgePosition)
       /\ UNCHANGED <<accepted, hedged, exchange>>
  \/ check_hedge /\ hedged' = hedged + HedgeSent /\ UNCHANGED <<accepted, exchange>>
  \/ \E tm \in timers : cancel_order_timer(tm) /\ UNCHANGED <<accepted, hedged, exchange>>
  \/ Advance(MaxNow * TicksPerUnit) /\ UNCHANGED <<accepted, hedged, exchange>>

SpecHedge == Init /\ [][NextHedge]_vars

\* SpecPrice: the two quoting formulas as functions of their inputs.  Init draws
\* the position and the price windows; one order-book update is then handled
\* by either strategy.
PricePositions == {-100, -80, -79, -51, -50, 0, 50, 51, 79, 80, 100}
PriceBids == {1, 100, 140, 1000, 9900, 19900}
PriceAsks == {1, 160, 200, 1100, 10100, 20100}
PriceWindows == {<<>>} \cup {<<m>> : m \in {100, 1000, 10000}}
FullWindow(m, n) == [i \in 1..n |-> m + i]
InitPrice ==
  /\ now = 0
  /\ next_check = CHECK_FIRST_DELAY
  /\ timers = {}
  /\ order_ids = 1
  /\ bids = {} /\ asks = {}
  /\ bidq = <<>> /\ askq = <<>>
  /\ position \in PricePositions
  /\ hedge_balance = -position
  /\ hedge_time = IF Abs(position) > HEDGE_BOUNDARY THEN 0 ELSE None
  /\ recent_prices \in PriceWindows
  /\ etf_prices = FullWindow(1000, RR_AVG_WINDOW)
  /\ fut_prices \in {FullWindow(2000, RR_AVG_WINDOW - 1), FullWindow(2000, RR_AVG_WINDOW)}
  /\ call_times = <<>>
  /\ cancel_call_times = <<>>
  /\ out = <<>>
  /\ ev = "init"
  /\ accepted = <<>>
  /\ hedged = 0
  /\ exchange = NoOrders

\* order-book updates with a non-positive best bid or best ask (an empty side
\* of the book is reported with price 0)
MalformedUpdates ==
  { <<FUTURE, 0, 10100>>, <<FUTURE, 200, 0>>, <<FUTURE, 0, 0>>, <<ETF, 0, 200>> }

NextPrice ==
  \/ \E b \in PriceBids, a \in PriceAsks :
       /\ ev = "init"
       /\ on_order_book_update_message(FUTURE, b, a)
       /\ UNCHANGED <<accepted, hedged, exchange>>
  \/ \E b \in PriceBids, a \in PriceAsks, g \in Signals :
       /\ ev = "init"
       /\ on_order_book_update_message_rr(FUTURE, b, a, g)
       /\ UNCHANGED <<accepted, hedged, exchange>>
  \/ \E u \in MalformedUpdates :
       /\ ev = "init"
       /\ on_order_book_update_message(u[1], u[2], u[3])
       /\ UNCHANGED <<accepted, hedged, exchange>>
  \/ \E u \in MalformedUpdates, g \in Signals :
       /\ ev = "init"
       /\ on_order_book_update_message_rr(u[1], u[2], u[3], g)
       /\ UNCHANGED <<accepted, hedged, exchange>>

SpecPrice == InitPrice /\ [][NextPrice]_vars

\* SpecCycle: one quoting cycle as a function of the position and of the
\* queues it finds.  Init draws the position and the number of ids queued on
\* each side (the ids themselves are labels: odd for bids, even for asks, as
\* two-sided cycles allocate them); one order-book update is then handled by
\* either strategy.
CyclePositions == {-100, -65, -60, 0, 55, 60, 100}
QueuedIds(first, n) == [i \in 1..n |-> first + 2 * (i - 1)]
CycleUpdates == { <<FUTURE, 1000, 1000>>, <<FUTURE, 40, 60>> }
InitCycle ==
  /\ now = 0
  /\ next_check = CHECK_FIRST_DELAY
  /\ timers = {}
  /\ order_ids = 2 * MaxQueued + 1
  /\ bidq \in {QueuedIds(1, n) : n \in 0..MaxQueued}
  /\ askq \in {QueuedIds(2, n) : n \in 0..MaxQueued}
  /\ bids = Elems(bidq) /\ asks = Elems(askq)
  /\ position \in CyclePositions
  /\ hedge_balance = -position
  /\ hedge_time = IF Abs(position) > HEDGE_BOUNDARY THEN 0 ELSE None
  /\ recent_prices = <<>>
  /\ etf_prices = FullWindow(1000, RR_AVG_WINDOW)
  /\ fut_prices = FullWindow(2000, RR_AVG_WINDOW - 1)
  /\ call_times = <<>>
  /\ cancel_call_times = <<>>
  /\ out = <<>>
  /\ ev = "init"
  /\ accepted = <<>>
  /\ hedged = 0
  /\ exchange = NoOrders

NextCycle ==
  \/ \E u \in CycleUpdates :
       /\ ev = "init"
       /\ on_order_book_update_message(u[1], u[2], u[3])
       /\ UNCHANGED <<accepted, hedged, exchange>>
  \/ \E u \in CycleUpdates, g \in Signals :
       /\ ev = "init"
       /\ on_order_book_update_message_rr(u[1], u[2], u[3], g)
       /\ UNCHANGED <<accepted, hedged, exchange>>

SpecCycle == InitCycle /\ [][NextCycle]_vars

\* SpecThrottle: a stream of order-book updates, each calling send_throttled
\* for a bid and for an ask, at clock ticks that never decrease.
NextThrottle ==
  \/ /\ order_ids + 1 <= MaxThrottleOrderId
     /\ on_order_book_update_message(FUTURE, 1000, 1000)
     /\ accepted' = accepted \o BookUpdateVol(FUTURE, 1000, 1000).cycle.acc
     /\ UNCHANGED <<hedged, exchange>>
  \/ Tick(MaxThrottleTicks) /\ UNCHANGED <<accepted, hedged, exchange>>

SpecThrottle == Init /\ [][NextThrottle]_vars

\* SpecExchange: the strategy against an exchange that behaves as well as an
\* exchange can: it fills only orders it has received and not completed, each
\* for its submitted volume, reports a completed order with a status message
\* of remaining volume 0, and confirms a requested cancel of an open order at
\* any later moment with the same message.  Within a side the exchange serves
\* the oldest order first, and the status message of a completed order
\* follows its fill message before anything else is delivered.
Received(o) ==
  {[id |-> o[i].id, side |-> o[i].side, volume |-> o[i].volume] :
     i \in {k \in DOMAIN o : o[k].op = "insert"}}
CancelsRequested(o) == {o[i].id : i \in {k \in DOMAIN o : o[k].op = "cancel"}}
FirstOf(S) == CHOOSE x \in S : \A y \in S : x <= y
OpenIds(side) == {o.id : o \in {x \in exchange.open : x.side = side}}

ExBook ==
  /\ exchange.done = {}
  /\ order_ids + 1 <= MaxExchangeOrderId
  /\ on_order_book_update_message(FUTURE, 1000, 1000)
  /\ exchange' = [exchange EXCEPT !.open = @ \cup Received(out'),
                                  !.cancels = @ \cup CancelsRequested(out')]
  /\ UNCHANGED <<accepted, hedged>>

ExFill ==
  \E o \in exchange.open :
    /\ exchange.done = {}
    /\ o.id = FirstOf(OpenIds(o.side))
    /\ on_order_filled_message(o.id, o.volume)
    /\ exchange' = [exchange EXCEPT !.open = @ \ {o},
                                    !.cancels = @ \ {o.id},
                                    !.done = @ \cup {o.id}]
    /\ UNCHANGED <<accepted, hedged>>

ExStatus ==
  /\ exchange.done # {}
  /\ on_order_status_message(FirstOf(exchange.done), 0)
  /\ exchange' = [exchange EXCEPT !.done = @ \ {FirstOf(exchange.done)}]
  /\ UNCHANGED <<accepted, hedged>>

ExCancel ==
  \E o \in exchange.open :
    /\ exchange.done = {}
    /\ o.id \in exchange.cancels
    /\ o.id = FirstOf(exchange.cancels)
    /\ on_order_status_message(o.id, 0)
    /\ exchange' = [exchange EXCEPT !.open = @ \ {o},
                                    !.cancels = @ \ {o.id}]
    /\ UNCHANGED <<accepted, hedged>>

NextExchange == ExBook \/ ExFill \/ ExStatus \/ ExCancel

SpecExchange == Init /\ [][NextExchange]_vars

\* ------------------------------------------------------------ claims
\* the calls the throttler let through in the window (t - interval, t]
AcceptedIn(t) == {i \in DOMAIN accepted : t - interval < accepted[i] /\ accepted[i] <= t}

\* C1: in every trailing window of one interval (1 second), at most max_calls
\* (47) calls of send_throttled were let through by its throttler.
C1_RateLimit == \A t \in 0..now : Cardinality(AcceptedIn(t)) <= 47
\* a window holds 47 accepted calls made at two different ticks, and a later
\* call in that window was dropped
C1_Witness ==
  /\ Cardinality(AcceptedIn(now)) = 47
  /\ \E i, j \in AcceptedIn(now) : accepted[i] # accepted[j]
  /\ order_ids - 1 > Len(accepted)
  /\ throttler_drops(call_times, now)

\* C2: in every reachable state the bid queue and the ask queue each hold at
\* most 4 order ids.
C2_QueueBound == Len(bidq) <= 4 /\ Len(askq) <= 4
\* a quoting cycle evicted from the full bid queue and refilled it
C2_Witness ==
  /\ Len(bidq) = 4
  /\ ev = "book"
  /\ \E i, j \in DOMAIN out : out[i].op = "cancel" /\ out[j].op = "insert" /\ out[j].side = BUY

\* the gateway calls of kind op in a callback's output o
Calls(o, op) == {o[i] : i \in {k \in DOMAIN o : o[k].op = op}}
\* the id queued first: ids are allocated in increasing order when they are queued
Oldest(q) == CHOOSE x \in Elems(q) : \A y \in Elems(q) : x <= y
\* a queue found full loses exactly its oldest id, and that id is cancelled once
EvictedOldest(q, q2, o) ==
  Len(q) = 4 =>
    /\ Elems(q) \ Elems(q2) = {Oldest(q)}
    /\ Cardinality({i \in DOMAIN o : o[i] = CancelOrder(Oldest(q))}) = 1
\* the step is a quoting cycle of the volatility variant
QuotingStep ==
  \E u \in BookUpdates :
    /\ u[1] = FUTURE /\ u[2] > 0 /\ u[3] > 0
    /\ on_order_book_update_message(u[1], u[2], u[3])

\* C3: a quoting cycle that finds a side's queue at capacity removes exactly one
\* id from it, the one queued earliest, and issues sendCancelOrder for that id
\* in the same cycle, whatever the state of the send throttler; no other cancel
\* is issued.
C3_EvictOldest ==
  [][QuotingStep =>
       /\ EvictedOldest(bidq, bidq', out')
       /\ EvictedOldest(askq, askq', out')
       /\ {c.id : c \in Calls(out', "cancel")} =
            {Oldest(q) : q \in {x \in {bidq, askq} : Len(x) = 4}}]_vars
\* both queues were full, both oldest ids were cancelled, and the throttler
\* dropped both new orders
C3_Witness ==
  /\ ev = "book"
  /\ Len(out) = 2 /\ out[1].op = "cancel" /\ out[2].op = "cancel"
  /\ out[1].id < bidq[1] /\ out[2].id < askq[1]
  /\ Len(bidq) = 3 /\ Len(askq) = 3
  /\ throttler_drops(call_times, now)

\* C4: a fill (id, volume) of an id recorded as a buy adds volume to position
\* and subtracts it from hedge_balance; of an id recorded as a sell, the
\* opposite; of an id recorded on neither side, changes neither.
C4_FillAccounting ==
  [][\A id \in 0..(MaxOrderId + 1), v \in FillVolumes :
       on_order_filled_message(id, v) =>
         LET buy == id \in bids \cup Elems(bidq)
             sell == id \in asks \cup Elems(askq)
         IN /\ buy => position' = position + v /\ hedge_balance' = hedge_balance - v
            /\ sell => position' = position - v /\ hedge_balance' = hedge_balance + v
            /\ ~buy /\ ~sell => position' = position /\ hedge_balance' = hedge_balance]_vars
\* a buy fill of 50 and a sell fill of 100 have been accounted
C4_Witness ==
  /\ ev = "fill"
  /\ position = 5 * LOT_SIZE - POSITION_LIMIT
  /\ hedge_balance = POSITION_LIMIT - 5 * LOT_SIZE

\* the step is a periodic check in which the correction fires
CorrectionFires ==
  /\ ev' = "check_hedge"
  /\ (out' # <<>> \/ hedge_balance' # hedge_balance \/ hedge_time' # hedge_time)

\* C5: right after a hedge correction fires, hedge_balance is exactly +10 if it
\* was above +10 before the check and exactly -10 if it was below -10, the
\* hedge timer is unset and position is unchanged.
C5_CorrectionResult ==
  [][CorrectionFires =>
       /\ hedge_balance > 10 \/ hedge_balance < -10
       /\ hedge_balance > 10 => hedge_balance' = 10
       /\ hedge_balance < -10 => hedge_balance' = -10
       /\ hedge_time' = None
       /\ position' = position]_vars
\* a correction of a negative imbalance has just fired
C5_Witness ==
  /\ ev = "check_hedge" /\ out # <<>>
  /\ hedge_balance = -10 /\ hedge_time = None /\ position > 10

\* exactly one gateway call, a hedge order of the given side and volume
OneHedge(o, side, volume) ==
  /\ Len(o) = 1
  /\ o[1].op = "hedge" /\ o[1].side = side /\ o[1].volume = volume

\* C6 as stated: a correction of a positive imbalance b sends exactly one hedge
\* SELL order of volume b - 10, one of a negative imbalance exactly one hedge
\* BUY order of volume |b| - 10.
C6_Original ==
  [][CorrectionFires =>
       /\ hedge_balance > 10 => OneHedge(out', SELL, hedge_balance - 10)
       /\ hedge_balance < -10 => OneHedge(out', BUY, -hedge_balance - 10)]_vars
\* C6 as amended: a correction of a positive imbalance b sends exactly one hedge
\* BUY order (Side.BID) of volume b - 10, one of a negative imbalance exactly
\* one hedge SELL order (Side.ASK) of volume |b| - 10.
C6_HedgeOrder ==
  [][CorrectionFires =>
       /\ hedge_balance > 10 => OneHedge(out', BUY, hedge_balance - 10)
       /\ hedge_balance < -10 => OneHedge(out', SELL, -hedge_balance - 10)]_vars
\* the scenario: an imbalance of +15 corrected by a hedge order of volume 5
C6_Witness ==
  /\ ev = "check_hedge"
  /\ OneHedge(out, BUY, 5)
  /\ hedge_balance = 10 /\ position = -15

\* C7: between callbacks, the hedge timer is set exactly when hedge_balance is
\* outside [-10, 10].
C7_TimerIffOutside ==
  (hedge_time # None) <=> (hedge_balance > 10 \/ hedge_balance < -10)
\* the timer was set at an earlier time and a later fill left it set
C7_Witness ==
  /\ ev = "fill"
  /\ hedge_time # None /\ hedge_time < now
  /\ hedge_balance < -10

\* C8: a hedge order is sent only by the periodic check, and only when the
\* timer is set, more than 58 time units have passed since it was set, and
\* hedge_balance is outside [-10, 10].
C8_HedgeOnlyWhenDue ==
  [][Calls(out', "hedge") # {} =>
       /\ ev' = "check_hedge"
       /\ hedge_time # None
       /\ now - hedge_time > 58 * TicksPerUnit
       /\ (hedge_balance > 10 \/ hedge_balance < -10)]_vars
\* a hedge order has been sent, and checks before it sent none
C8_Witness ==
  /\ Calls(out, "hedge") # {}
  /\ now > 58 * TicksPerUnit
  /\ order_ids > 1

\* C9, the schedule: the check is first due 50 time units after startup and
\* afterwards within 1 time unit, and the timer is never older than 59 units.
C9_Schedule ==
  /\ now <= next_check
  /\ now < 50 * TicksPerUnit => next_check = 50 * TicksPerUnit
  /\ now >= 50 * TicksPerUnit => next_check - now <= 1 * TicksPerUnit
  /\ hedge_time # None => now - hedge_time <= 59 * TicksPerUnit
\* C9, the steps: every check reschedules itself 1 time unit later, fired or
\* not, and fires when the timer is older than 58 units; a fill that takes
\* hedge_balance out of [-10, 10] sets the timer to the current time, and a
\* fill that leaves it outside with the same sign leaves the timer alone.
C9_Steps ==
  /\ ev' = "check_hedge" =>
       /\ next_check' = now + 1 * TicksPerUnit
       /\ (hedge_time # None /\ now - hedge_time > 58 * TicksPerUnit) =>
            Calls(out', "hedge") # {} /\ hedge_time' = None
  /\ ev' = "fill" =>
       /\ (Abs(hedge_balance) <= 10 /\ Abs(hedge_balance') > 10) => hedge_time' = now
       /\ (hedge_balance > 10 /\ hedge_balance' > 10) => hedge_time' = hedge_time
       /\ (hedge_balance < -10 /\ hedge_balance' < -10) => hedge_time' = hedge_time
\* C9: an imbalance that leaves [-10, 10] at time T and stays outside with the
\* same sign is corrected at the first periodic check later than T + 58, no
\* later than T + 59; the check first runs at 50 and then every 1 time unit.
C9_HedgeDeadline == []C9_Schedule /\ [][C9_Steps]_vars
\* the timer set at time 0 survived a later same-sign fill and the correction
\* fired at the check at time 59
C9_Witness ==
  /\ ev = "check_hedge" /\ out # <<>>
  /\ now = 59 * TicksPerUnit
  /\ hedge_balance = 10 /\ position <= -20

\* C10: every price passed to sendInsertOrder, by either strategy, is a
\* multiple of 100.
C10_TickAligned ==
  \A i \in DOMAIN out : out[i].op = "insert" => out[i].price % 100 = 0
\* quotes sent at the rebalancing threshold, the bid above the lowest tick
C10_Witness ==
  /\ ev = "book"
  /\ position = 80
  /\ \E i, j \in DOMAIN out :
       /\ out[i].op = "insert" /\ out[i].side = BUY /\ out[i].price > 100
       /\ out[j].op = "insert" /\ out[j].side = SELL /\ out[j].price >= out[i].price

\* C11: in the volatility variant, when the cancel timer of an order sent 10
\* time units earlier runs and cancel_order's throttler has budget, a
\* sendCancelOrder for that order id is issued.
C11_AutoCancel ==
  [][\A tm \in timers :
       (cancel_order_timer(tm) /\ ~throttler_drops(cancel_call_times, now)) =>
         /\ now = tm[1]
         /\ CancelOrder(tm[2]) \in Calls(out', "cancel")]_vars

\* C12: in both variants an order-book update whose best bid or best ask is
\* non-positive changes no price window, queue, set, position, imbalance or
\* timer and makes no gateway call.
C12_MalformedSkipped ==
  [][\A u \in MalformedUpdates, g \in Signals :
       (\/ on_order_book_update_message(u[1], u[2], u[3])
        \/ on_order_book_update_message_rr(u[1], u[2], u[3], g)) =>
         /\ UNCHANGED <<recent_prices, etf_prices, fut_prices, bidq, askq, bids, asks,
                        position, hedge_balance, hedge_time>>
         /\ out' = <<>>]_vars
\* the same for the volatility variant alone
C12_MalformedSkippedVol ==
  [][\A u \in MalformedUpdates :
       on_order_book_update_message(u[1], u[2], u[3]) =>
         /\ UNCHANGED <<recent_prices, etf_prices, fut_prices, bidq, askq, bids, asks,
                        position, hedge_balance, hedge_time>>
         /\ out' = <<>>]_vars

\* the id is in neither side's set nor queue
UnknownId(id) == id \notin (bids \cup asks \cup Elems(bidq) \cup Elems(askq))

\* C13: a fill, status or error callback for an order id that is in neither
\* side's set nor queue changes none of position, hedge_balance, hedge_time,
\* the queues and the sets, and makes no gateway call.
C13_UnknownIdNoOp ==
  [][ev' \in {"fill", "status", "error"} =>
       \/ /\ UNCHANGED <<position, hedge_balance, hedge_time, bidq, askq, bids, asks>>
          /\ out' = <<>>
       \/ ~ \E id \in 0..(order_ids - 1) :
              /\ UnknownId(id)
              /\ \/ \E v \in HedgeVolumes : on_order_filled_message(id, v)
                 \/ \E r \in {0, 5} : on_order_status_message(id, r)
                 \/ on_error_message(id)]_vars
\* a fill arrived when no id was known any more and the timer had been set earlier
C13_Witness ==
  /\ ev = "fill"
  /\ bids = {} /\ asks = {} /\ bidq = <<>> /\ askq = <<>>
  /\ hedge_time # None /\ hedge_time < now
  /\ order_ids > 1

\* a queue as the quoting cycle leaves it before it submits: without its
\* oldest id if it held 4
AfterEviction(q) == IF Len(q) >= 4 THEN Tail(q) ELSE q

\* C14: a submit the send throttler rejects has no side effect and is never
\* retried: the throttler's window, the side's queue and set are as they were
\* before the call, no sendInsertOrder is made for its id in that cycle, and
\* every later sendInsertOrder carries an id allocated later.  (Stated for
\* cycles that submit on both sides: the bid gets id order_ids, the ask the next.)
C14_RejectedNoEffect ==
  [][/\ QuotingStep =>
          LET dropBid == throttler_drops(call_times, now)
              ct1 == IF dropBid THEN call_times ELSE DequeAppend(call_times, now, max_calls)
              dropAsk == throttler_drops(ct1, now)
          IN /\ dropBid =>
                  /\ bidq' = AfterEviction(bidq) /\ bids' = bids
                  /\ \A c \in Calls(out', "insert") : c.id # order_ids
             /\ dropAsk =>
                  /\ askq' = AfterEviction(askq) /\ asks' = asks
                  /\ \A c \in Calls(out', "insert") : c.id # order_ids + 1
                  /\ call_times' = ct1
     /\ order_ids' >= order_ids
     /\ \A c \in Calls(out', "insert") : c.id >= order_ids /\ c.id < order_ids']_vars
\* a cycle whose bid took the last slot of the window and whose ask was rejected
C14_Witness ==
  /\ ev = "book"
  /\ Len(call_times) = 47
  /\ Cardinality(Calls(out, "insert")) = 1
  /\ \E c \in Calls(out, "insert") : c.side = BUY /\ c.id = order_ids - 2

\* the volume the ExposureAccountant allows a side whose queue holds len ids
BidVolume(len) == Min(LOT_SIZE, Max(0, POSITION_LIMIT - position - LOT_SIZE * len))
AskVolume(len) == Min(LOT_SIZE, Max(0, POSITION_LIMIT + position - LOT_SIZE * len))
\* the sendInsertOrder calls of one side in a callback's output o
Submitted(o, side) == {c \in Calls(o, "insert") : c.side = side}
\* a side is submitted once with the given volume, or skipped exactly when
\* the volume is 0 or the price is 0
SideSubmitted(o, side, price, volume) ==
  IF price # 0 /\ volume > 0
    THEN Cardinality(Submitted(o, side)) = 1 /\ \A c \in Submitted(o, side) : c.volume = volume
    ELSE Submitted(o, side) = {}
\* a quoting cycle of either strategy submits what the ExposureAccountant
\* allows for queue lengths blen and alen
CycleSubmits(blen, alen) ==
  \A u \in CycleUpdates :
    LET mid_price == (u[2] + u[3]) \div 2
    IN /\ on_order_book_update_message(u[1], u[2], u[3]) =>
            LET q == QuoteVol(mid_price, recent_prices', position)
            IN /\ SideSubmitted(out', BUY, q.bid, BidVolume(blen))
               /\ SideSubmitted(out', SELL, q.ask, AskVolume(alen))
       /\ \A g \in Signals :
            on_order_book_update_message_rr(u[1], u[2], u[3], g) =>
              LET q == QuoteReg(mid_price, g)
              IN /\ SideSubmitted(out', BUY, q.bid, BidVolume(blen))
                 /\ SideSubmitted(out', SELL, q.ask, AskVolume(alen))

\* C15 as stated: the volume submitted on a side is min(lotSize, max(0,
\* positionLimit -/+ position - lotSize * queue length)) with the queue length
\* taken after the eviction, and a side is skipped only when that value is 0
\* or its price is 0.
C15_Original ==
  [][CycleSubmits(Len(AfterEviction(bidq)), Len(AfterEviction(askq)))]_vars
\* C15 as amended: the same with the queue length taken before the eviction
\* (the order being evicted still counts as exposure).
C15_VolumeBeforeEviction ==
  [][CycleSubmits(Len(bidq), Len(askq))]_vars
\* at position 60 the full bid queue lost its oldest id and no bid was
\* submitted, while an ask was
C15_Witness ==
  /\ ev = "book"
  /\ position = 60
  /\ Len(bidq) = 3
  /\ CancelOrder(1) \in Calls(out, "cancel")
  /\ Submitted(out, BUY) = {}
  /\ Submitted(out, SELL) # {}

\* the balance is outside the band on the same side before and after
SameSideOutside(pre, post) ==
  \/ pre > HEDGE_BOUNDARY /\ post > HEDGE_BOUNDARY
  \/ pre < -HEDGE_BOUNDARY /\ post < -HEDGE_BOUNDARY
\* C16: a fill that arrives while the timer is armed and leaves the imbalance
\* outside the band with the same sign keeps the timer at exactly its
\* previous value.
C16_ArmedTimerKept ==
  [][(/\ ev' = "fill"
      /\ hedge_time # None
      /\ SameSideOutside(hedge_balance, hedge_balance')) => hedge_time' = hedge_time]_vars
\* after a fill of sell orders the balance is 30, outside the band, and the
\* timer still shows the earlier time at which it was armed
C16_Witness ==
  /\ ev = "fill"
  /\ hedge_balance > 2 * HEDGE_BOUNDARY
  /\ hedge_time # None
  /\ hedge_time < now
  /\ asks # {}

\* C17: the timer-driven cancel terminates, after at most max_calls + 1 nested
\* calls of the throttled helper, returns without an error and leaves the
\* position, the imbalance, the hedge timer, the queues and the sets as they
\* were, whether or not the order is still tracked.
C17_CancelTerminatesHarmless ==
  [][ev' = "cancel_timer" =>
       /\ cancel_order_depth(cancel_call_times, now) <= max_calls + 1
       /\ cancel_call_times' = cancel_order(cancel_call_times, now)
       /\ UNCHANGED <<position, hedge_balance, hedge_time, bidq, askq, bids, asks>>
       /\ out' = <<>>]_vars
\* both timers have run, one for a bid that a status message had already
\* removed and one for an ask that is still tracked; the helper's window is full
C17_Witness ==
  /\ ev = "cancel_timer"
  /\ timers = {}
  /\ Len(cancel_call_times) = max_calls
  /\ bids = {} /\ bidq = <<>>
  /\ asks # {} /\ askq # <<>>

\* C18: against an exchange that fills only received, uncompleted orders for
\* at most their submitted volume and confirms cancels arbitrarily late, the
\* position stays within [-POSITION_LIMIT, POSITION_LIMIT].
C18_PositionWithinLimit == position >= -POSITION_LIMIT /\ position <= POSITION_LIMIT

\* C19: position + hedge_balance always equals the total hedge volume sent to
\* correct negative imbalances minus the total sent to correct positive ones;
\* a fill never changes the sum, and a correction changes hedge_balance by
\* exactly the volume of the hedge order it sends and leaves position alone.
C19_Conservation ==
  /\ [](position + hedge_balance = hedged)
  /\ [][/\ ev' = "fill" => position' + hedge_balance' = position + hedge_balance
        /\ CorrectionFires =>
             /\ position' = position
             /\ \E c \in Calls(out', "hedge") :
                  /\ hedge_balance < 0 => hedge_balance' = hedge_balance + c.volume
                  /\ hedge_balance > 0 => hedge_balance' = hedge_balance - c.volume]_vars
\* hedge orders have been sent and a later fill has moved the balance again
C19_Witness ==
  /\ ev = "fill"
  /\ hedged # 0
  /\ hedge_balance # HEDGE_BOUNDARY /\ hedge_balance # -HEDGE_BOUNDARY
  /\ position + hedge_balance = hedged

\* C20: in the volatility variant every cycle that computes both prices ends
\* with an ask price strictly above the bid price, for every positive mid
\* price and every position in [-100, 100], the rebalancing override included.
C20_AskAboveBid ==
  [][\A b \in PriceBids, a \in PriceAsks :
       on_order_book_update_message(FUTURE, b, a) =>
         LET q == QuoteVol((b + a) \div 2, recent_prices', position)
         IN q.ask > q.bid]_vars

\* C20 for the orders of a cycle: when a bid and an ask are both submitted the
\* ask price is strictly above the bid price.
C20_SubmittedAskAboveBid ==
  [][\A b \in PriceBids, a \in PriceAsks :
       on_order_book_update_message(FUTURE, b, a) =>
         \A c \in Submitted(out', BUY), d \in Submitted(out', SELL) : d.price > c.price]_vars

====
